---- MODULE Spec2Model ----
(***************************************************************************)
(* Model of bg3_mod_installer.py: the BG3ModInstaller class (install_mod,  *)
(* update_modsettings, create_mod_xml, remove_mod, get_installed_mods,     *)
(* get_steam_id) and the menu loop of main().                              *)
(*                                                                         *)
(* Files are modelled by what the code reads from them:                    *)
(*  - a modsettings.lsx file is a document [ok, hasMods, mods]: ok is      *)
(*    whether ET.parse succeeds, hasMods whether the path                  *)
(*    .//node[@id='Mods']/children exists, mods the ModuleShortDesc        *)
(*    children of that container in document order, each node being the   *)
(*    map from attribute id to attribute value.  Documents have the game's *)
(*    layout: ModuleShortDesc nodes occur under Mods/children only.        *)
(*  - a file name is the sequence of its tokens, <<"ModX", "/", "ModX",    *)
(*    ".pak">>, so that endswith() is a comparison of the last tokens.     *)
(*  - the Mods directory is (exists, set of relative file names).          *)
(* Python control flow is kept: an operator that models a method returns   *)
(* the new file state together with the way the call ended: "return" (or   *)
(* the value returned, "True"/"False", for remove_mod) or "SystemExit";    *)
(* sys.exit raises SystemExit, which is not an Exception and is therefore  *)
(* not caught by `except Exception`.                                       *)
(***************************************************************************)
EXTENDS Integers, Sequences, FiniteSets, TLC

VARIABLES reg, mods_exists, mods_files, steam_userdata, pc, last

vars == <<reg, mods_exists, mods_files, steam_userdata, pc, last>>

(***************************************************************************)
(* Bounds of the model.                                                    *)
(***************************************************************************)
MaxRecords == 2
MaxInitRecords == 1

(***************************************************************************)
(* Values.                                                                 *)
(***************************************************************************)
\* JSON null / Python None: the one non-string value a manifest field takes
None == "<None>"

IsStr(v) == v # None

DefaultVersion == "36028797018963968"

\* the numeric identity directory and a non-numeric sibling
SteamId == "1001"
OtherEntry == "anonymous"

isdigit(d) == d = SteamId

profile_modsettings == "profile"

\* str(): the decimal text of an integer Version
str(v) == ToString(v)

\* str.lower() on the suffixes the model uses
lower(s) ==
  CASE s = ".ZIP" -> ".zip"
    [] s = ".PAK" -> ".pak"
    [] OTHER -> s

\* name.endswith(suffix), on token sequences
endswith(name, suffix) ==
  /\ Len(name) >= Len(suffix)
  /\ SubSeq(name, Len(name) - Len(suffix) + 1, Len(name)) = suffix

(***************************************************************************)
(* Registry documents.                                                     *)
(***************************************************************************)
BadDoc == [ok |-> FALSE, hasMods |-> FALSE, mods |-> <<>>]

NoModsDoc == [ok |-> TRUE, hasMods |-> FALSE, mods |-> <<>>]

Doc(children) == [ok |-> TRUE, hasMods |-> TRUE, mods |-> children]

\* get_installed_mods: [] when the profile file does not parse, else one
\* attribute map per ModuleShortDesc node, in document order
get_installed_mods(regs) ==
  LET doc == regs[profile_modsettings] IN
  IF ~doc.ok THEN <<>> ELSE doc.mods

\* get_steam_id: the first all-digit entry of the userdata directory;
\* a missing directory or no such entry ends in sys.exit(1)
get_steam_id(userdata) ==
  IF ~userdata.exists
  THEN [outcome |-> "SystemExit", id |-> ""]
  ELSE LET steam_ids == SelectSeq(userdata.entries, isdigit) IN
       IF steam_ids = <<>>
       THEN [outcome |-> "SystemExit", id |-> ""]
       ELSE [outcome |-> "return", id |-> steam_ids[1]]

userdata_modsettings(steam_id) == steam_id

(***************************************************************************)
(* create_mod_xml                                                          *)
(***************************************************************************)
\* mod_info["Folder"], ["Name"], ["UUID"] raise KeyError when absent
HasRequiredKeys(mod_info) ==
  {"Folder", "Name", "UUID"} \subseteq DOMAIN mod_info

create_mod_xml(mod_info) ==
  [Folder    |-> mod_info["Folder"],
   MD5       |-> IF "MD5" \in DOMAIN mod_info THEN mod_info["MD5"] ELSE "",
   Name      |-> mod_info["Name"],
   UUID      |-> mod_info["UUID"],
   Version64 |-> IF "Version" \in DOMAIN mod_info
                 THEN str(mod_info["Version"]) ELSE DefaultVersion]

\* tree.write serialises attribute values; a value that is not a string
\* raises TypeError after the file has been opened for writing
Serializable(node) == \A k \in DOMAIN node : IsStr(node[k])

appendRecord_AtFront(doc, new_module) ==
  [doc EXCEPT !.mods = <<new_module>> \o doc.mods]

\* mods_children.append(new_module)
appendRecord(doc, new_module) ==
  [doc EXCEPT !.mods = Append(doc.mods, new_module)]

(***************************************************************************)
(* update_modsettings                                                      *)
(***************************************************************************)
update_settings_paths_Swapped(steam_id) ==
  <<userdata_modsettings(steam_id), profile_modsettings>>

\* for settings_path in [self.profile_modsettings, userdata_modsettings]
update_settings_paths(steam_id) ==
  <<profile_modsettings, userdata_modsettings(steam_id)>>

RECURSIVE UpdateLoop(_, _, _, _, _)
UpdateLoop(paths, k, mod_info, regs, written) ==
  IF k > Len(paths)
  THEN [reg |-> regs, outcome |-> "return", written |-> written]
  ELSE
    LET settings_path == paths[k]
        doc == regs[settings_path]
    IN
    IF ~doc.ok \/ ~doc.hasMods \/ ~HasRequiredKeys(mod_info)
    THEN [reg |-> regs, outcome |-> "SystemExit", written |-> written]
    ELSE
      LET new_module == create_mod_xml(mod_info) IN
      IF ~Serializable(new_module)
      THEN [reg |-> [regs EXCEPT ![settings_path] = BadDoc],
            outcome |-> "SystemExit",
            written |-> Append(written, settings_path)]
      ELSE UpdateLoop(paths, k + 1, mod_info,
                      [regs EXCEPT ![settings_path] = appendRecord(doc, new_module)],
                      Append(written, settings_path))

update_modsettings(mod_info, regs, userdata) ==
  LET sid == get_steam_id(userdata) IN
  IF sid.outcome = "SystemExit"
  THEN [reg |-> regs, outcome |-> "SystemExit", written |-> <<>>]
  ELSE UpdateLoop(update_settings_paths(sid.id), 1, mod_info, regs, <<>>)

(***************************************************************************)
(* install_mod                                                             *)
(***************************************************************************)
ArchiveSuffixes == {".zip", ".rar", ".7z"}

PakSuffix == ".pak"

\* Path.suffix and Path.name of the path typed by the user
suffix(mod_path) == mod_path.ext

name(mod_path) ==
  IF mod_path.ext = "" THEN <<mod_path.stem>> ELSE <<mod_path.stem, mod_path.ext>>

namelist(zip) == [i \in 1..Len(zip) |-> zip[i].name]

IsPak(f) == endswith(f, <<".pak">>)

IsInfo(f) == endswith(f, <<"info", ".json">>)

pak_files_FirstOnly(zip) ==
  LET found == SelectSeq(namelist(zip), IsPak) IN
  IF found = <<>> THEN <<>> ELSE <<found[1]>>

pak_files(zip) == SelectSeq(namelist(zip), IsPak)

info_files(zip) == SelectSeq(namelist(zip), IsInfo)

\* zip_ref.read(name)
read(zip, f) ==
  LET i == CHOOSE i \in 1..Len(zip) : zip[i].name = f IN zip[i].content

SeqRange(s) == {s[i] : i \in 1..Len(s)}

\* "Mods" in info_data and len(info_data["Mods"]) > 0
HasModsRecord(info_data) ==
  "Mods" \in DOMAIN info_data /\ Len(info_data["Mods"]) > 0

\* the body of `with zipfile.ZipFile(...)`, files being the Mods directory
\* after mkdir
InstallArchive(zip, files, regs, userdata) ==
  IF pak_files(zip) = <<>>
  THEN [reg |-> regs, files |-> files, outcome |-> "SystemExit", written |-> <<>>]
  ELSE
    LET extracted == files \cup SeqRange(pak_files(zip)) IN
    IF info_files(zip) = <<>>
    THEN [reg |-> regs, files |-> extracted, outcome |-> "return", written |-> <<>>]
    ELSE
      LET info == read(zip, info_files(zip)[1]) IN
      IF ~info.valid
      THEN [reg |-> regs, files |-> extracted, outcome |-> "SystemExit", written |-> <<>>]
      ELSE IF ~HasModsRecord(info.data)
      THEN [reg |-> regs, files |-> extracted, outcome |-> "return", written |-> <<>>]
      ELSE
        LET u == update_modsettings(info.data["Mods"][1], regs, userdata) IN
        [reg |-> u.reg, files |-> extracted, outcome |-> u.outcome,
         written |-> u.written]

\* install_mod: every exception is caught and turned into sys.exit(1)
install_mod(mod_path, regs, files, userdata) ==
  \* self.mods_path.mkdir(parents=True, exist_ok=True) comes first
  IF lower(suffix(mod_path)) \in ArchiveSuffixes
  THEN
    IF mod_path.kind # "zip"
    THEN [reg |-> regs, exists |-> TRUE, files |-> files,
          outcome |-> "SystemExit", written |-> <<>>]
    ELSE LET r == InstallArchive(mod_path.zip, files, regs, userdata) IN
         [reg |-> r.reg, exists |-> TRUE, files |-> r.files,
          outcome |-> r.outcome, written |-> r.written]
  ELSE IF lower(suffix(mod_path)) = PakSuffix
  THEN
    IF mod_path.kind = "missing"
    THEN [reg |-> regs, exists |-> TRUE, files |-> files,
          outcome |-> "SystemExit", written |-> <<>>]
    ELSE [reg |-> regs, exists |-> TRUE, files |-> files \cup {name(mod_path)},
          outcome |-> "return", written |-> <<>>]
  ELSE [reg |-> regs, exists |-> TRUE, files |-> files,
        outcome |-> "SystemExit", written |-> <<>>]

(***************************************************************************)
(* remove_mod                                                              *)
(***************************************************************************)
ValidIndex_NoLowerBound(mod_index, installed_mods) ==
  mod_index < Len(installed_mods)

\* 0 <= mod_index < len(installed_mods), on 0-based indices
ValidIndex(mod_index, installed_mods) ==
  0 <= mod_index /\ mod_index < Len(installed_mods)

\* list[i] on a Python list: a negative index counts from the end, an index
\* out of range raises IndexError
Indexable(list, i) == -Len(list) <= i /\ i < Len(list)

getitem(list, i) == IF i >= 0 THEN list[i + 1] ELSE list[Len(list) + i + 1]

\* self.mods_path / f"{mod_folder}.pak"
pak_path(mod_folder) == <<mod_folder, ".pak">>

RemoveAt(s, i) == SubSeq(s, 1, i - 1) \o SubSeq(s, i + 1, Len(s))

\* the first ModuleShortDesc child whose Folder attribute equals mod_folder
\* is removed; nothing is removed when there is none
removeRecordByFolder(doc, mod_folder) ==
  LET hits == {i \in 1..Len(doc.mods) :
                 "Folder" \in DOMAIN doc.mods[i] /\ doc.mods[i]["Folder"] = mod_folder}
  IN
  IF ~doc.hasMods \/ hits = {}
  THEN doc
  ELSE LET first == CHOOSE i \in hits : \A j \in hits : i <= j IN
       [doc EXCEPT !.mods = RemoveAt(doc.mods, first)]

remove_settings_paths(steam_id) ==
  <<profile_modsettings, userdata_modsettings(steam_id)>>

RECURSIVE RemoveLoop(_, _, _, _, _)
RemoveLoop(paths, k, mod_folder, regs, written) ==
  IF k > Len(paths)
  THEN [reg |-> regs, outcome |-> "True", written |-> written]
  ELSE
    LET settings_path == paths[k]
        doc == regs[settings_path]
    IN
    IF ~doc.ok
    THEN [reg |-> regs, outcome |-> "False", written |-> written]
    ELSE RemoveLoop(paths, k + 1, mod_folder,
                    [regs EXCEPT ![settings_path] = removeRecordByFolder(doc, mod_folder)],
                    Append(written, settings_path))

\* remove_mod: outcome "True"/"False" is the value returned, "SystemExit"
\* the sys.exit(1) of get_steam_id passing through `except Exception`
remove_mod(mod_index, regs, files, userdata) ==
  LET installed_mods == get_installed_mods(regs) IN
  IF ~ValidIndex(mod_index, installed_mods)
  THEN [reg |-> regs, files |-> files, outcome |-> "False", written |-> <<>>]
  ELSE
    LET mod_to_remove == getitem(installed_mods, mod_index) IN
    IF ~Indexable(installed_mods, mod_index) \/ "Folder" \notin DOMAIN mod_to_remove
    THEN [reg |-> regs, files |-> files, outcome |-> "False", written |-> <<>>]
    ELSE
      LET mod_folder == mod_to_remove["Folder"]
          files2 == files \ {pak_path(mod_folder)}
          sid == get_steam_id(userdata)
      IN
      IF sid.outcome = "SystemExit"
      THEN [reg |-> regs, files |-> files2, outcome |-> "SystemExit", written |-> <<>>]
      ELSE
        LET r == RemoveLoop(remove_settings_paths(sid.id), 1, mod_folder, regs, <<>>) IN
        [reg |-> r.reg, files |-> files2, outcome |-> r.outcome, written |-> r.written]

(***************************************************************************)
(* Inputs: manifests, archives and the paths given to install.             *)
(***************************************************************************)
EmptyObj == [k \in {} |-> ""]

RecA == [Folder |-> "ModA", Name |-> "Mod A", UUID |-> "uuid-a"]

RecA2 == [Folder |-> "ModA", MD5 |-> "md5-a2", Name |-> "Mod A2",
          UUID |-> "uuid-a2", Version |-> 2]

RecB == [Folder |-> "ModB", Name |-> "Mod B", UUID |-> "uuid-b", Version |-> 1]

RecNoFolder == [Name |-> "Mod C", UUID |-> "uuid-c"]

RecNullMD5 == [Folder |-> "ModB", MD5 |-> None, Name |-> "Mod B", UUID |-> "uuid-b"]

Binary == [valid |-> FALSE, data |-> EmptyObj]

Json(obj) == [valid |-> TRUE, data |-> obj]

Manifests ==
  {Binary, Json(EmptyObj), Json([Mods |-> <<>>]),
   Json([Mods |-> <<RecA>>]), Json([Mods |-> <<RecA2>>]),
   Json([Mods |-> <<RecB>>]), Json([Mods |-> <<RecA, RecB>>]),
   Json([Mods |-> <<RecNoFolder>>]), Json([Mods |-> <<RecNullMD5>>])}

Entry(n, c) == [name |-> n, content |-> c]

RootPakA == <<"ModA", ".pak">>

NestedPakA == <<"ModA", "/", "ModA", ".pak">>

RootPakB == <<"ModB", ".pak">>

UpperPak == <<"ModC", ".PAK">>

Readme == <<"readme", ".txt">>

PakLists ==
  {<<Entry(UpperPak, Binary)>>,
   <<Entry(RootPakA, Binary)>>,
   <<Entry(NestedPakA, Binary), Entry(RootPakB, Binary)>>}

NestedInfo == <<"ModA", "/", "info", ".json">>

Archives ==
  {<<Entry(Readme, Binary)>> \o paks \o infos :
     paks \in PakLists,
     infos \in {<<>>, <<Entry(<<"info", ".json">>, Json([Mods |-> <<RecA>>]))>>}}
  \cup {<<Entry(RootPakA, Binary), Entry(<<"info", ".json">>, m)>> : m \in Manifests}
  \cup {<<Entry(NestedPakA, Binary), Entry(RootPakB, Binary),
          Entry(NestedInfo, Json([Mods |-> <<RecB>>])),
          Entry(<<"info", ".json">>, Json([Mods |-> <<RecA>>]))>>}

OneArchive == <<Entry(RootPakA, Binary), Entry(<<"info", ".json">>, Json([Mods |-> <<RecA>>]))>>

Path(stem, ext, kind, zip) == [stem |-> stem, ext |-> ext, kind |-> kind, zip |-> zip]

NoPath == Path("", "", "missing", <<>>)

InstallInputs ==
  {Path("mod", ".zip", "zip", a) : a \in Archives}
  \cup {Path("mod", ".ZIP", "zip", OneArchive),
        Path("mod", ".rar", "other", <<>>),
        Path("mod", ".7z", "other", <<>>),
        Path("mod", ".zip", "other", <<>>),
        Path("mod", ".zip", "missing", <<>>),
        Path("ModB", ".pak", "other", <<>>),
        Path("ModA", ".PAK", "other", <<>>),
        Path("ModB", ".pak", "missing", <<>>),
        Path("mod", ".txt", "other", <<>>),
        Path("mod", ".txt", "zip", OneArchive),
        Path("mod", "", "other", <<>>)}

(***************************************************************************)
(* Initial file states.                                                    *)
(***************************************************************************)
NodeA == create_mod_xml(RecA)

NodeB == create_mod_xml(RecB)

InitNodes == {NodeA, NodeB}

RECURSIVE SeqsUpTo(_, _)
SeqsUpTo(S, n) ==
  IF n = 0 THEN {<<>>}
  ELSE LET shorter == SeqsUpTo(S, n - 1) IN
       shorter \cup {Append(s, x) : s \in shorter, x \in S}

FoldersUnique(doc) ==
  \A i, j \in 1..Len(doc.mods) :
     doc.mods[i]["Folder"] = doc.mods[j]["Folder"] => i = j

InitDocs ==
  {BadDoc, NoModsDoc}
  \cup {d \in {Doc(s) : s \in SeqsUpTo(InitNodes, MaxInitRecords)} : FoldersUnique(d)}

RegFiles == {profile_modsettings, userdata_modsettings(SteamId)}

InitUserdata ==
  {[exists |-> FALSE, entries |-> <<>>],
   [exists |-> TRUE, entries |-> <<OtherEntry>>],
   [exists |-> TRUE, entries |-> <<OtherEntry, SteamId>>]}

Last(op, mod_path, mod_index, outcome, written) ==
  [op |-> op, mod_path |-> mod_path, mod_index |-> mod_index,
   outcome |-> outcome, written |-> written]

Init ==
  /\ reg \in {r \in [RegFiles -> InitDocs] :
                 r[SteamId] \in {r[profile_modsettings], BadDoc, Doc(<<>>)}}
  /\ mods_exists \in BOOLEAN
  /\ mods_files = (IF mods_exists THEN {RootPakA} ELSE {})
  /\ steam_userdata \in InitUserdata
  /\ pc = "menu"
  /\ last = Last("start", NoPath, 0, "return", <<>>)

(***************************************************************************)
(* main: the menu loop.                                                    *)
(***************************************************************************)
\* what the loop does after a call ended: SystemExit ends the process,
\* a return or an Exception caught by `except Exception` goes round again
AfterCall(outcome) == IF outcome = "SystemExit" THEN "exited" ELSE "menu"

WithinBound(regs) == \A f \in RegFiles : Len(regs[f].mods) <= MaxRecords

\* choice 1
MenuInstall ==
  /\ pc = "menu"
  /\ \E mod_path \in InstallInputs :
       LET r == install_mod(mod_path, reg, mods_files, steam_userdata) IN
       /\ WithinBound(r.reg)
       /\ reg' = r.reg
       /\ mods_exists' = r.exists
       /\ mods_files' = r.files
       /\ pc' = AfterCall(r.outcome)
       /\ last' = Last("install", mod_path, 0, r.outcome, r.written)
  /\ UNCHANGED steam_userdata

DoRemove(mod_index) ==
  LET r == remove_mod(mod_index, reg, mods_files, steam_userdata) IN
  /\ reg' = r.reg
  /\ mods_files' = r.files
  /\ pc' = AfterCall(r.outcome)
  /\ last' = Last("remove", NoPath, mod_index, r.outcome, r.written)
  /\ UNCHANGED <<mods_exists, steam_userdata>>

\* choice 2: nothing to remove, or the number typed at the list of mods
\* (0 cancels, 1..len(mods) selects index choice - 1)
MenuRemove ==
  /\ pc = "menu"
  /\ LET installed_mods == get_installed_mods(reg) IN
     IF installed_mods = <<>>
     THEN /\ last' = Last("menu", NoPath, 0, "no mods", <<>>)
          /\ UNCHANGED <<reg, mods_exists, mods_files, steam_userdata, pc>>
     ELSE \E choice \in 0..Len(installed_mods) :
            IF choice = 0
            THEN /\ last' = Last("menu", NoPath, 0, "cancel", <<>>)
                 /\ UNCHANGED <<reg, mods_exists, mods_files, steam_userdata, pc>>
            ELSE DoRemove(choice - 1)

\* choice 3
MenuExit ==
  /\ pc = "menu"
  /\ pc' = "exited"
  /\ last' = Last("exit", NoPath, 0, "return", <<>>)
  /\ UNCHANGED <<reg, mods_exists, mods_files, steam_userdata>>

\* remove_mod called with an arbitrary index by a caller other than the menu
RemoveCall ==
  /\ pc = "menu"
  /\ \E mod_index \in -1..(MaxRecords + 1) : DoRemove(mod_index)

Next == MenuInstall \/ MenuRemove \/ MenuExit \/ RemoveCall

Spec == Init /\ [][Next]_vars

TypeOK ==
  /\ \A f \in RegFiles : reg[f].ok \in BOOLEAN /\ Len(reg[f].mods) <= MaxRecords
  /\ mods_exists \in BOOLEAN
  /\ (~mods_exists => mods_files = {})
  /\ pc \in {"menu", "exited"}

(***************************************************************************)
(* Properties.  `last` describes the operation that produced the current   *)
(* state; in an action formula the unprimed variables are the files before *)
(* that operation and the primed ones the files after it.                  *)
(***************************************************************************)

\* C1: an install of an archive with at least one .pak entry and a manifest
\* whose "Mods" list is non-empty, once it completes, leaves in each of the
\* two registry files the previous sequence of ModuleShortDesc nodes followed
\* by exactly one new node, whose Folder, MD5, Name, UUID, Version64 are those
\* of the first manifest record (MD5 "" and Version64 "36028797018963968"
\* when absent); later records add nothing.
C1_InstallAppendsFirstRecord ==
  [][ LET p == last'.mod_path
          paks == {i \in 1..Len(p.zip) : p.zip[i].name[Len(p.zip[i].name)] = ".pak"}
          infos == {i \in 1..Len(p.zip) :
                      /\ Len(p.zip[i].name) >= 2
                      /\ p.zip[i].name[Len(p.zip[i].name)] = ".json"
                      /\ p.zip[i].name[Len(p.zip[i].name) - 1] = "info"}
          manifest == p.zip[CHOOSE i \in infos : \A j \in infos : i <= j].content
          rec == manifest.data["Mods"][1]
          node == [Folder    |-> rec["Folder"],
                   MD5       |-> IF "MD5" \in DOMAIN rec THEN rec["MD5"] ELSE "",
                   Name      |-> rec["Name"],
                   UUID      |-> rec["UUID"],
                   Version64 |-> IF "Version" \in DOMAIN rec
                                 THEN ToString(rec["Version"])
                                 ELSE "36028797018963968"]
      IN
      ( /\ last'.op = "install"
        /\ last'.outcome = "return"
        /\ p.kind = "zip"
        /\ p.ext \in {".zip", ".ZIP", ".rar", ".7z"}
        /\ paks # {}
        /\ infos # {}
        /\ manifest.valid
        /\ "Mods" \in DOMAIN manifest.data
        /\ manifest.data["Mods"] # <<>> )
      => \A f \in RegFiles :
           /\ reg'[f].ok
           /\ reg'[f].mods = reg[f].mods \o <<node>> ]_vars

\* C1 witness: an install of an archive whose manifest lists two records, the
\* first without MD5 and Version, has completed on registries that already
\* held a node.
C1_Witness ==
  /\ last.op = "install"
  /\ last.outcome = "return"
  /\ \E i \in 1..Len(last.mod_path.zip) :
       /\ last.mod_path.zip[i].content.valid
       /\ "Mods" \in DOMAIN last.mod_path.zip[i].content.data
       /\ Len(last.mod_path.zip[i].content.data["Mods"]) = 2
  /\ \A f \in RegFiles :
       /\ Len(reg[f].mods) = 2
       /\ reg[f].mods[2]["MD5"] = ""
       /\ reg[f].mods[2]["Version64"] = "36028797018963968"

\* C2: for every index i with 0 <= i < count, after remove(i) the record list
\* read back from the profile registry is the prior list with exactly the
\* i-th element deleted and the others in their original relative order.
C2_RemoveDeletesIth ==
  [][ ( /\ last'.op = "remove"
        /\ last'.outcome = "True"
        /\ 0 <= last'.mod_index
        /\ last'.mod_index < Len(get_installed_mods(reg)) )
      => get_installed_mods(reg')
           = SubSeq(get_installed_mods(reg), 1, last'.mod_index)
             \o SubSeq(get_installed_mods(reg), last'.mod_index + 2,
                       Len(get_installed_mods(reg))) ]_vars

\* C3: an install whose path has an unsupported extension fails and performs
\* no filesystem write at all: no file or directory is created, changed or
\* removed, the install directory included.
C3_UnsupportedTouchesNothing ==
  [][ ( /\ last'.op = "install"
        /\ last'.mod_path.ext \notin {".zip", ".ZIP", ".rar", ".7z", ".pak", ".PAK"} )
      => /\ last'.outcome = "SystemExit"
         /\ reg' = reg
         /\ mods_exists' = mods_exists
         /\ mods_files' = mods_files ]_vars

\* C4: in menu mode, whenever the install option fails the failure is caught
\* locally, the process does not terminate and the menu is presented again.
C4_MenuInstallFailureReturnsToMenu ==
  (last.op = "install" /\ last.outcome # "return") => pc = "menu"

\* C5: remove(index) never terminates the process: for every index and every
\* filesystem state it returns a success/failure indicator and control
\* returns to the menu.
C5_RemoveNeverTerminates ==
  last.op = "remove" => (last.outcome \in {"True", "False"} /\ pc = "menu")

\* C6: remove(i) for any i outside [0, count), count being the number of
\* records in the profile registry, returns failure and leaves both registry
\* files unchanged.
C6_InvalidIndexLeavesRegistries ==
  [][ LET count == IF reg["profile"].ok THEN Len(reg["profile"].mods) ELSE 0 IN
      ( /\ last'.op = "remove"
        /\ ~(0 <= last'.mod_index /\ last'.mod_index < count) )
      => /\ last'.outcome = "False"
         /\ reg' = reg ]_vars

\* C6 witness: remove was called with an index outside [0, count) on a
\* profile registry that holds records.
C6_Witness ==
  /\ last.op = "remove"
  /\ reg["profile"].ok
  /\ Len(reg["profile"].mods) >= 1
  /\ (last.mod_index < 0 \/ last.mod_index >= Len(reg["profile"].mods))
  /\ last.outcome = "False"

\* C7: for every install or remove operation, whether it succeeds or fails
\* part-way, either both registry files are changed by it or neither is.
C7_BothOrNeither ==
  [][ last'.op \in {"install", "remove"}
      => ((reg'["profile"] # reg["profile"]) <=> (reg'[SteamId] # reg[SteamId])) ]_vars

\* C7 as amended: the registry files are written in the order profile-scoped,
\* identity-scoped: an install or remove that completes successfully has
\* written both files or neither, one that fails part-way has written neither
\* or only the profile-scoped file, and a file the operation did not write is
\* unchanged.
C7_ProfileFirst ==
  [][ last'.op \in {"install", "remove"}
      => /\ last'.written \in {<<>>, <<"profile">>, <<"profile", SteamId>>}
         /\ (last'.outcome \in {"return", "True"} => last'.written # <<"profile">>)
         /\ \A f \in RegFiles :
              reg'[f] # reg[f] => \E k \in 1..Len(last'.written) : last'.written[k] = f ]_vars

\* C7 witness: an install failed part-way after it had appended its record to
\* the profile-scoped file only.
C7_Witness ==
  /\ last.op = "install"
  /\ last.outcome = "SystemExit"
  /\ last.written = <<"profile">>
  /\ reg["profile"].ok
  /\ Len(reg["profile"].mods) >= 1
  /\ ~reg[SteamId].ok

\* C8: starting from registries in which no two records share a Folder, after
\* any sequence of install and remove operations no two ModuleShortDesc
\* records of a registry file have the same Folder value.
C8_FolderUnique ==
  \A f \in RegFiles :
    \A i, j \in 1..Len(reg[f].mods) :
      reg[f].mods[i]["Folder"] = reg[f].mods[j]["Folder"] => i = j

\* C9: an install that produces no usable manifest record (an archive with at
\* least one .pak entry and no manifest, a manifest without "Mods" key or with
\* an empty "Mods" list, or a bare .pak file) places every .pak payload under
\* the install directory and leaves both registry files unmodified.
C9_NoRecordNoRegistryChange ==
  [][ LET p == last'.mod_path
          paks == {i \in 1..Len(p.zip) : p.zip[i].name[Len(p.zip[i].name)] = ".pak"}
          infos == {i \in 1..Len(p.zip) :
                      /\ Len(p.zip[i].name) >= 2
                      /\ p.zip[i].name[Len(p.zip[i].name)] = ".json"
                      /\ p.zip[i].name[Len(p.zip[i].name) - 1] = "info"}
          manifest == p.zip[CHOOSE i \in infos : \A j \in infos : i <= j].content
          archive == /\ p.kind = "zip"
                     /\ p.ext \in {".zip", ".ZIP", ".rar", ".7z"}
                     /\ paks # {}
                     /\ \/ infos = {}
                        \/ /\ manifest.valid
                           /\ \/ "Mods" \notin DOMAIN manifest.data
                              \/ manifest.data["Mods"] = <<>>
          bare == p.kind # "missing" /\ p.ext \in {".pak", ".PAK"}
      IN
      (last'.op = "install" /\ (archive \/ bare))
      => /\ last'.outcome = "return"
         /\ reg' = reg
         /\ mods_exists'
         /\ archive => \A i \in paks : p.zip[i].name \in mods_files'
         /\ bare => <<p.stem, p.ext>> \in mods_files' ]_vars

\* C9 witness: an archive with two .pak entries and no manifest has been
\* installed and both payloads are under the install directory.
C9_Witness ==
  /\ last.op = "install"
  /\ last.outcome = "return"
  /\ last.written = <<>>
  /\ last.mod_path.kind = "zip"
  /\ Len(last.mod_path.zip) = 3
  /\ {NestedPakA, RootPakB} \subseteq mods_files

\* C10: after install of an archive with a manifest record and then a
\* successful remove of the record that install registered, no .pak file
\* extracted by that install remains under the install directory, whatever
\* the entry's relative path and file name.
C10_InstallThenRemoveRestores ==
  [][ ( /\ last.op = "install"
        /\ last.outcome = "return"
        /\ last.written # <<>>
        /\ last'.op = "remove"
        /\ last'.outcome = "True"
        /\ last'.mod_index = Len(reg["profile"].mods) - 1 )
      => \A i \in 1..Len(last.mod_path.zip) :
           last.mod_path.zip[i].name[Len(last.mod_path.zip[i].name)] = ".pak"
             => last.mod_path.zip[i].name \notin mods_files' ]_vars

====
